---- MODULE Spec2Model ----
(***************************************************************************)
(* Model of the UPS API governance scripts: the lint-output parser and     *)
(* scorer (scoreSpecFile, scoreSpecViaPostman), the retry wrapper          *)
(* (retryWithBackoff), the report aggregators and the governance CLIs.     *)
(*                                                                         *)
(* Linter output is text; the model keeps of a text exactly what the code  *)
(* reads of it: its lines, classified by the substrings the code tests     *)
(* with includes(), the first summary line the regular expression of       *)
(* scoreSpecFile matches, and, when the whole text is a JSON document,     *)
(* the shape JSON.parse returns.                                           *)
(***************************************************************************)
EXTENDS Integers, Sequences, FiniteSets, TLC

VARIABLES
    violations,   \* SpecScore: the list of violations handed to the scorer
    scoreOut,     \* SpecScore: the score computed for it (NotScored before)
    entry,        \* SpecLint: "file" (scoreSpecFile) or "id" (scoreSpecViaPostman)
    lint,         \* SpecLint: what the lint subprocess did: [ok, out]
    result,       \* SpecLint: the ScoreResult returned (NoResult before)
    maxRetries,   \* retryWithBackoff: its argument maxRetries
    baseDelay,    \* retryWithBackoff: its argument baseDelay (ms)
    attempt,      \* retryWithBackoff: the loop variable
    lastError,    \* retryWithBackoff: the error caught last (NoError before)
    rstate,       \* retryWithBackoff: "idle", "calling", "sleeping", "returned", "thrown"
    retValue,     \* retryWithBackoff: the value returned (NoValue before)
    opLog,        \* the outcomes of the operation's invocations, in order
    delays,       \* the delays slept, in order (ms)
    printed,      \* what the process has written to standard output, in order
    argv,         \* CLI: the script run and its parsed command line
    pc,           \* CLI: where main stands
    phase,        \* CLI: 1 while main builds its report, 2 in generateDashboardFromAPI
    todo,         \* CLI: how many specs the listing in progress enumerated
    lints,        \* CLI: the lint subprocess outcomes of the specs of main's report
    report,       \* CLI: the report of main
    dashReport,   \* CLI: the report generateDashboardFromAPI builds
    errlog,       \* CLI: what the process has written to standard error
    written,      \* CLI: the dashboards written to the --output file, in order
    exitCode,     \* CLI: the exit code of the process (Running before it ends)
    inflight,     \* the registry requests and lint subprocesses awaiting completion
    registry,     \* uploader: the specs the workspace holds, in listing order
    nextId,       \* uploader: the id the registry gives the next spec created
    queue,        \* uploader: the entries a batch loop still has to process
    call,         \* uploader: the PostmanSpecUploader method main awaits; its i is
                  \*   the loop variable of pollTaskStatus
    returns,      \* uploader: what the methods called in this run returned, in order
    runs,         \* uploader: how many runs of the command were started
    history       \* uploader: exit code and last return of each earlier run

scoreVars == <<violations, scoreOut>>
lintVars == <<entry, lint, result>>
retryVars == <<maxRetries, baseDelay, attempt, lastError, rstate, retValue,
               opLog, delays, printed>>
cliVars == <<argv, pc, phase, todo, lints, report, dashReport, errlog, written,
             exitCode, inflight>>
upVars == <<registry, nextId, queue, call, returns, runs, history>>

-----------------------------------------------------------------------------
(* Bounds of the model *)

MaxErrors == 11     \* error count of a summary-shaped violation list
MaxOthers == 2      \* warning/info/hint count of a summary-shaped list
MaxList == 3        \* length of a violation list in arbitrary order
MaxCount == 4       \* each count of a summary line in a lint output
MaxLines == 2       \* lines of a lint output besides its summary line
MaxJson == 2        \* result objects of a JSON lint output
MaxRetriesArg == 4  \* largest maxRetries handed to retryWithBackoff
MaxSpecs == 2       \* specs a registry or directory listing returns
MaxRuns == 2        \* runs of an uploader command in a row
MaxArgs == 4        \* arguments on the command line of the hand-parsed CLI

-----------------------------------------------------------------------------
(* Values *)

Absent == "<absent>"          \* an undefined field
NotScored == -1
NoCount == -1                 \* violationCount undefined

\* no method call in progress
NoCall == [fn |-> "none", arg |-> 0, step |-> "none", i |-> 0, value |-> 0]

Max(a, b) == IF a >= b THEN a ELSE b

RECURSIVE Repeat(_, _)
Repeat(x, n) == IF n <= 0 THEN <<>> ELSE <<x>> \o Repeat(x, n - 1)

Reverse(s) == [i \in 1..Len(s) |-> s[Len(s) + 1 - i]]

SeqsUpTo(S, n) == UNION {[1..k -> S] : k \in 0..n}

\* Severities a violation can carry after parsing: the four known ones, the
\* alias 'warn' and any other string a JSON result may hold.
Severities == {"error", "warning", "warn", "info", "hint", "fatal"}

-----------------------------------------------------------------------------
(* The scorer: src/unnamed/part_001 97-122, src/unnamed/part_002 102-127 *)

\* the switch on the severity: the amount subtracted for one violation
penalty(severity) ==
    CASE severity = "error" -> 10
      [] severity \in {"warning", "warn"} -> 5
      [] severity = "info" -> 2
      [] OTHER -> 1

\* violations.forEach(violation => score -= ...), from the running score acc
RECURSIVE forEachViolation(_, _)
forEachViolation(vs, acc) ==
    IF vs = <<>> THEN acc
    ELSE forEachViolation(Tail(vs),
                          acc - penalty(IF Head(vs) = Absent THEN "hint" ELSE Head(vs)))

\* the score without the clamp at 0
calcScore_noClamp(vs) == forEachViolation(vs, 100)

\* let score = 100; violations.forEach(...); Math.max(0, score)
calcScore(vs) == Max(0, forEachViolation(vs, 100))

-----------------------------------------------------------------------------
(* Lint output as the parsers read it *)

\* Lines of a text output, named by the substrings the code looks for:
\*   rowX       a table row: contains the column separator and the keyword X
\*              (rowWARN contains WARN but not WARNING)
\*   rowHeader  a header or separator row: contains the column separator and
\*              one of 'Range', 'Severity', the horizontal rule
\*   errorLine  contains 'Error:' but not "Couldn't parse"
\*   cantParseLine contains "Couldn't parse" but not 'Error:'
\*   markerLine contains 'Error:' and "Couldn't parse"
\*   other      none of these
LineKinds ==
    {"rowERROR", "rowWARNING", "rowWARN", "rowINFO", "rowHINT", "rowHeader",
     "errorLine", "cantParseLine", "markerLine", "other"}

\* severity fields of a JSON result object as the linter writes them
RawSeverities ==
    {"error", "ERROR", "Warning", "warn", "info", "HINT", "fatal", "<number>", Absent}

NoSummary == <<>>
SummaryLines == {<<e, w, i, h>> : e \in 0..MaxCount, w \in 0..MaxCount,
                                  i \in 0..MaxCount, h \in 0..MaxCount}

TextOutput(lines, summary) ==
    [kind |-> "text", lines |-> lines, summary |-> summary,
     shape |-> "none", items |-> <<>>]
JsonOutput(shape, items) ==
    [kind |-> "json", lines |-> <<>>, summary |-> NoSummary,
     shape |-> shape, items |-> items]

\* a JSON document one of whose strings (the message of a result) holds the
\* substrings of the lines given
JsonOutputSaying(shape, items, lines) ==
    [kind |-> "json", lines |-> lines, summary |-> NoSummary,
     shape |-> shape, items |-> items]

EmptyOutput == TextOutput(<<>>, NoSummary)

\* a text of at most MaxLines lines, its summary line counted among them
TextOutputs ==
    {TextOutput(l, NoSummary) : l \in SeqsUpTo(LineKinds, MaxLines)}
        \cup {TextOutput(l, s) : l \in SeqsUpTo(LineKinds, MaxLines - 1),
                                 s \in SummaryLines}
JsonOutputs ==
    {JsonOutput(sh, it) : sh \in {"array", "results"},
                          it \in SeqsUpTo(RawSeverities, MaxJson)}
        \cup {JsonOutput("object", <<>>)}
        \cup {JsonOutputSaying(sh, it, <<"errorLine">>) :
                    sh \in {"array", "results"},
                    it \in SeqsUpTo(RawSeverities, MaxJson) \ {<<>>}}
Outputs == TextOutputs \cup JsonOutputs

\* line.includes('│')
includesSeparator(line) ==
    line \in {"rowERROR", "rowWARNING", "rowWARN", "rowINFO", "rowHINT", "rowHeader"}
\* lineClean.includes(keyword)
includesKeyword(line, kw) ==
    CASE kw = "ERROR" -> line = "rowERROR"
      [] kw = "WARNING" -> line = "rowWARNING"
      [] kw = "WARN" -> line \in {"rowWARNING", "rowWARN"}
      [] kw = "INFO" -> line = "rowINFO"
      [] kw = "HINT" -> line = "rowHINT"
      [] OTHER -> FALSE
\* lineClean.includes('Range') || includes('Severity') || includes('─')
isHeaderRow(line) == line = "rowHeader"
\* stdout.includes('Error:')
includesError(out) ==
    \E i \in 1..Len(out.lines) : out.lines[i] \in {"errorLine", "markerLine"}
\* stdout.includes("Couldn't parse")
includesCouldntParse(out) ==
    \E i \in 1..Len(out.lines) : out.lines[i] \in {"cantParseLine", "markerLine"}

\* error.message of a rejected exec: 'Command failed: <command>'
CommandFailed == "Command failed"
CommandFailedText == TextOutput(<<"other">>, NoSummary)

-----------------------------------------------------------------------------
(* ScoreResult *)

NoResult ==
    [score |-> NotScored, violations |-> <<>>, violationCount |-> NoCount,
     error |-> Absent]
\* an error result that keeps a score and a count
errorResult_keepsScore(message) ==
    [score |-> 90, violations |-> <<"error">>, violationCount |-> 1, error |-> message]
\* { score: 0, error: message }
errorResult(message) ==
    [score |-> 0, violations |-> <<>>, violationCount |-> NoCount, error |-> message]
\* { score: Math.max(0, score), violations, violationCount: violations.length }
scored(vs) ==
    [score |-> calcScore(vs), violations |-> vs, violationCount |-> Len(vs),
     error |-> Absent]

-----------------------------------------------------------------------------
(* The parse tiers *)

\* cleanOutput.match(summaryRegex): the groups of the first match, or none
summaryMatch(out) == out.summary

\* the groups of the match taken in the wrong order
summaryViolations_swapped(m) ==
    Repeat("error", m[1]) \o Repeat("warning", m[3])
        \o Repeat("info", m[2]) \o Repeat("hint", m[4])

\* the four loops pushing errors, warnings, infos and hints
summaryViolations(m) ==
    Repeat("error", m[1]) \o Repeat("warning", m[2])
        \o Repeat("info", m[3]) \o Repeat("hint", m[4])

\* the table-row fallback of scoreSpecFile
RECURSIVE tableRowsFile(_)
tableRowsFile(lines) ==
    IF lines = <<>> THEN <<>>
    ELSE LET line == Head(lines)
             rest == tableRowsFile(Tail(lines))
         IN  IF ~includesSeparator(line) THEN rest
             ELSE IF isHeaderRow(line) THEN rest
             ELSE IF includesKeyword(line, "ERROR") THEN <<"error">> \o rest
             ELSE IF includesKeyword(line, "WARN") THEN <<"warning">> \o rest
             ELSE IF includesKeyword(line, "INFO") THEN <<"info">> \o rest
             ELSE IF includesKeyword(line, "HINT") THEN <<"hint">> \o rest
             ELSE rest

\* the text fallback of scoreSpecViaPostman
RECURSIVE tableRowsId(_)
tableRowsId(lines) ==
    IF lines = <<>> THEN <<>>
    ELSE LET line == Head(lines)
             rest == tableRowsId(Tail(lines))
         IN  IF ~includesSeparator(line) THEN rest
             ELSE IF includesKeyword(line, "ERROR") THEN <<"error">> \o rest
             ELSE IF includesKeyword(line, "WARNING") THEN <<"warning">> \o rest
             ELSE IF includesKeyword(line, "INFO") THEN <<"info">> \o rest
             ELSE IF includesKeyword(line, "HINT") THEN <<"hint">> \o rest
             ELSE rest

\* String.prototype.toLowerCase on a severity field
toLowerCase(s) ==
    CASE s = "ERROR" -> "error"
      [] s = "Warning" -> "warning"
      [] s = "HINT" -> "hint"
      [] OTHER -> s

\* result.severity?.toLowerCase() || 'hint'
jsonSeverity(raw) == IF raw = Absent THEN "hint" ELSE toLowerCase(raw)

\* JSON.parse(stdout) throws on a text that is no JSON document, and
\* toLowerCase is no function of a severity that is not a string
jsonThrows(out) ==
    \/ out.kind # "json"
    \/ \E i \in 1..Len(out.items) : out.items[i] = "<number>"

\* results.map(...) over the top-level array or over results.results
jsonViolations(out) ==
    IF out.shape \in {"array", "results"}
    THEN [i \in 1..Len(out.items) |-> jsonSeverity(out.items[i])]
    ELSE <<>>

-----------------------------------------------------------------------------
(* The two scoring entry points; l is the outcome of the lint subprocess:    *)
(* l.ok is its exit status being zero, l.out what it wrote (stderr is        *)
(* redirected into stdout by the command line).                              *)

\* scoreSpecFile without the check for the parse-failure marker
scoreSpecFile_noMarker(l) ==
    LET stdout == IF l.ok \/ l.out # EmptyOutput THEN l.out ELSE CommandFailedText
        m == summaryMatch(stdout)
    IN  IF m # NoSummary THEN scored(summaryViolations(m))
        ELSE scored(tableRowsFile(stdout.lines))

scoreSpecFile(l) ==
    LET \* stdout = result.stdout, or error.stdout || error.message || ''
        stdout == IF l.ok \/ l.out # EmptyOutput THEN l.out ELSE CommandFailedText
        m == summaryMatch(stdout)
    IN  IF includesError(stdout) /\ includesCouldntParse(stdout)
        THEN errorResult("Failed to parse API specification")
        ELSE IF m # NoSummary THEN scored(summaryViolations(m))
        ELSE scored(tableRowsFile(stdout.lines))

scoreSpecViaPostman(l) ==
    IF ~l.ok THEN errorResult(CommandFailed)       \* execPromise rejects
    ELSE IF includesError(l.out) THEN errorResult("Failed to lint spec")
    ELSE IF ~jsonThrows(l.out) THEN scored(jsonViolations(l.out))
    ELSE scored(tableRowsId(l.out.lines))

-----------------------------------------------------------------------------
(* retryWithBackoff: src/unnamed/part_002 15-40 *)

DefaultMaxRetries == 3
DefaultBaseDelay == 1000

NoError == -1
NoValue == -1
Running == -1         \* the process has not exited
DefaultThreshold == 70
WorkspacePassMark == 70
NetworkError == 0     \* fetch rejected: no HTTP status

\* The operation handed to the wrapper is the registry listing of
\* getWorkspaceGovernanceReport. One invocation either yields data.specs
\* (here: how many specs) or throws: on a reply that is not ok, the error
\* 'Failed to fetch workspace specs: <status> <statusText>'; on a rejected
\* fetch, the network error.
FailureStatuses == {400, 404, 429, 500, 503}
Errors == FailureStatuses \cup {NetworkError}
Outcomes == [ok : {TRUE}, v : 0..MaxSpecs] \cup [ok : {FALSE}, v : Errors]

\* error.message.includes('Failed to fetch workspace specs: 4'): the status
\* printed after the colon starts with the digit 4
isClientError(e) == e # NetworkError /\ e \div 100 = 4

\* one console.log: what is printed, and the report it shows
line(what, data) == [what |-> what, data |-> data]

RECURSIVE pow2(_)
pow2(n) == IF n <= 0 THEN 1 ELSE 2 * pow2(n - 1)

\* the exponent one too large
backoffDelay_offByOne(base, att) == base * pow2(att)
\* baseDelay * Math.pow(2, attempt - 1)
backoffDelay(base, att) == base * pow2(att - 1)

\* the wrapper is entered: the loop runs while attempt <= maxRetries
retryEnter(m, b) ==
    /\ maxRetries' = m /\ baseDelay' = b
    /\ attempt' = 1 /\ lastError' = NoError /\ retValue' = NoValue
    /\ opLog' = <<>> /\ delays' = <<>>
    /\ rstate' = IF 1 <= m THEN "calling" ELSE "thrown"

\* the wrapper's call is over: its locals are gone
retryLeave ==
    /\ attempt' = 1 /\ lastError' = NoError /\ retValue' = NoValue
    /\ opLog' = <<>> /\ delays' = <<>> /\ rstate' = "idle"
    /\ UNCHANGED <<maxRetries, baseDelay>>

\* the catch block sleeping for no time
catchError_noSleep(e) ==
    /\ lastError' = e
    /\ retValue' = NoValue
    /\ IF attempt = maxRetries
       THEN rstate' = "thrown" /\ UNCHANGED <<delays, printed>>
       ELSE IF isClientError(e)
       THEN rstate' = "thrown" /\ UNCHANGED <<delays, printed>>
       ELSE /\ delays' = delays
            /\ printed' = Append(printed, line("retrying", <<>>))
            /\ rstate' = "sleeping"

\* the catch block without the test for a client error
catchError_retry4xx(e) ==
    /\ lastError' = e
    /\ retValue' = NoValue
    /\ IF attempt = maxRetries
       THEN rstate' = "thrown" /\ UNCHANGED <<delays, printed>>
       ELSE /\ delays' = Append(delays, backoffDelay(baseDelay, attempt))
            /\ printed' = Append(printed, line("retrying", <<>>))
            /\ rstate' = "sleeping"

\* the catch block: remember the error; leave the loop after the last
\* attempt; rethrow a client error at once; else log and sleep
catchError(e) ==
    /\ lastError' = e
    /\ retValue' = NoValue
    /\ IF attempt = maxRetries
       THEN rstate' = "thrown" /\ UNCHANGED <<delays, printed>>
       ELSE IF isClientError(e)
       THEN rstate' = "thrown" /\ UNCHANGED <<delays, printed>>
       ELSE /\ delays' = Append(delays, backoffDelay(baseDelay, attempt))
            /\ printed' = Append(printed, line("retrying", <<>>))
            /\ rstate' = "sleeping"

\* return await fn(), with its catch block
RetryCall ==
    /\ rstate = "calling"
    /\ \E o \in Outcomes :
        /\ opLog' = Append(opLog, o)
        /\ IF o.ok
           THEN /\ retValue' = o.v
                /\ rstate' = "returned"
                /\ UNCHANGED <<lastError, delays, printed>>
           ELSE catchError(o.v)
    /\ UNCHANGED <<maxRetries, baseDelay, attempt, scoreVars, lintVars, cliVars, upVars>>

\* the timer of the sleep fires: next iteration of the loop
RetryWake ==
    /\ rstate = "sleeping"
    /\ attempt' = attempt + 1
    /\ rstate' = "calling"
    /\ UNCHANGED <<maxRetries, baseDelay, lastError, retValue, opLog, delays,
                   printed, scoreVars, lintVars, cliVars, upVars>>

-----------------------------------------------------------------------------
(* SpecScore: the scorer applied to the violation lists a parse tier builds  *)

SummaryShaped ==
    {summaryViolations(<<e, w, i, h>>) :
        e \in 0..MaxErrors, w \in 0..MaxOthers, i \in 0..MaxOthers, h \in 0..MaxOthers}

lintIdle == entry = "file" /\ lint = [ok |-> TRUE, out |-> EmptyOutput]
                /\ result = NoResult
scoreIdle == violations = <<>> /\ scoreOut = NotScored
retryIdle ==
    /\ maxRetries = DefaultMaxRetries /\ baseDelay = DefaultBaseDelay
    /\ attempt = 1 /\ lastError = NoError /\ rstate = "idle"
    /\ retValue = NoValue /\ opLog = <<>> /\ delays = <<>> /\ printed = <<>>
cliIdle ==
    /\ argv = [script |-> "id", mode |-> "spec", threshold |-> DefaultThreshold,
               json |-> FALSE, output |-> FALSE, apiKey |-> TRUE]
    /\ pc = "idle" /\ phase = 1 /\ todo = 0 /\ lints = <<>> /\ report = <<>>
    /\ dashReport = <<>> /\ errlog = <<>> /\ written = <<>> /\ exitCode = Running
    /\ inflight = <<>>
upIdle ==
    /\ registry = <<>> /\ nextId = 1 /\ queue = <<>> /\ call = NoCall
    /\ returns = <<>> /\ runs = 0 /\ history = <<>>

InitScore ==
    /\ violations \in SummaryShaped \cup SeqsUpTo(Severities, MaxList)
    /\ scoreOut = NotScored
    /\ lintIdle /\ retryIdle /\ cliIdle /\ upIdle

ScoreViolations ==
    /\ scoreOut = NotScored
    /\ scoreOut' = calcScore(violations)
    /\ UNCHANGED <<violations, lintVars, retryVars, cliVars, upVars>>

-----------------------------------------------------------------------------
(* SpecLint: one lint subprocess outcome scored by either entry point        *)

InitLint ==
    /\ entry \in {"file", "id"}
    /\ lint \in [ok : BOOLEAN, out : Outputs]
    /\ result = NoResult
    /\ scoreIdle /\ retryIdle /\ cliIdle /\ upIdle

LintFile ==
    /\ entry = "file"
    /\ result = NoResult
    /\ result' = scoreSpecFile(lint)
    /\ UNCHANGED <<entry, lint, scoreVars, retryVars, cliVars, upVars>>

LintSpec ==
    /\ entry = "id"
    /\ result = NoResult
    /\ result' = scoreSpecViaPostman(lint)
    /\ UNCHANGED <<entry, lint, scoreVars, retryVars, cliVars, upVars>>

-----------------------------------------------------------------------------
(* The governance CLIs: src/unnamed/part_001 (script "file": scores spec     *)
(* files, one or a directory) and src/unnamed/part_002 (script "id": scores  *)
(* registry specs, one or a workspace)                                       *)

NoKey == "<no key>"       \* a report entry built without the field

\* --threshold: below, at and above the pass mark the workspace report uses
Thresholds == {50, DefaultThreshold, 80}

Argvs ==
    {a \in [script : {"file", "id"}, mode : {"api", "dir", "spec", "workspace"},
            threshold : Thresholds, json : BOOLEAN, output : BOOLEAN,
            apiKey : BOOLEAN] :
        /\ a.script = "file" => a.mode \in {"api", "dir"}
        /\ a.script = "id" => a.mode \in {"spec", "api", "workspace"}}

\* lint subprocess outcomes the CLI runs meet: a clean spec, specs scoring
\* 70 and 75, a spec the linter cannot parse, and a subprocess that fails
\* without writing anything
CliLints(script) ==
    IF script = "file"
    THEN {[ok |-> TRUE, out |-> TextOutput(<<>>, <<0, 0, 0, 0>>)],
          [ok |-> FALSE, out |-> TextOutput(<<"rowERROR">>, <<3, 0, 0, 0>>)],
          [ok |-> FALSE, out |-> TextOutput(<<>>, <<2, 1, 0, 0>>)],
          [ok |-> FALSE, out |-> TextOutput(<<"markerLine">>, NoSummary)],
          [ok |-> FALSE, out |-> EmptyOutput]}
    ELSE {[ok |-> TRUE, out |-> JsonOutput("array", <<>>)],
          [ok |-> TRUE, out |-> JsonOutput("results", <<"ERROR", "error", "error">>)],
          [ok |-> TRUE, out |-> JsonOutput("array", <<"error", "error", "Warning">>)],
          [ok |-> TRUE, out |-> TextOutput(<<"errorLine">>, NoSummary)],
          [ok |-> FALSE, out |-> EmptyOutput]}

\* scorer.scoreSpecFile(path) or scorer.scoreSpecViaPostman(id)
scoreBy(script, l) ==
    IF script = "file" THEN scoreSpecFile(l) ELSE scoreSpecViaPostman(l)

\* result.violationCount || 0
violationsCountOf(r) == IF r.violationCount = NoCount THEN 0 ELSE r.violationCount

statusFor(score, mark) == IF score >= mark THEN "PASS" ELSE "FAIL"

\* governanceReport.push({...}) of getWorkspaceGovernanceReport
workspaceEntry(i, r) ==
    [id |-> i, score |-> r.score, violationsCount |-> violationsCountOf(r),
     status |-> statusFor(r.score, WorkspacePassMark), error |-> r.error]

\* governanceReport.push({...}) of getDirectoryGovernanceReport
directoryEntry(i, r, threshold) ==
    [id |-> i, score |-> r.score, violationsCount |-> violationsCountOf(r),
     status |-> statusFor(r.score, threshold), error |-> r.error]

\* report = [{...}] of main for --spec, --api
singleEntry(i, r, threshold) ==
    [id |-> i, score |-> r.score, violationsCount |-> violationsCountOf(r),
     status |-> statusFor(r.score, threshold), error |-> NoKey]

\* the entry either aggregator pushes for the i-th spec
batchEntry(script, i, r, threshold) ==
    IF script = "id" THEN workspaceEntry(i, r)
    ELSE directoryEntry(i, r, threshold)

\* report.filter(api => api.score < threshold).length > 0
failing(rep, threshold) == \E i \in 1..Len(rep) : rep[i].score < threshold

\* JSON.stringify writing a key whose value is undefined as null
stringifyEntry_undefinedAsNull(e) ==
    <<<<"id", e.id>>, <<"score", e.score>>, <<"violationsCount", e.violationsCount>>,
      <<"status", e.status>>,
      <<"error", IF e.error \in {Absent, NoKey} THEN "null" ELSE e.error>>>>

\* JSON.stringify of a report entry: the members of the object in the order
\* of its keys; a key whose value is undefined is left out
stringifyEntry(e) ==
    <<<<"id", e.id>>, <<"score", e.score>>, <<"violationsCount", e.violationsCount>>,
      <<"status", e.status>>>>
        \o (IF e.error \in {Absent, NoKey} THEN <<>> ELSE <<<<"error", e.error>>>>)

\* JSON.stringify(report, null, 2): the document written by --json
JSONstringify(rep) == [i \in 1..Len(rep) |-> stringifyEntry(rep[i])]

hasMember(obj, key) == \E i \in 1..Len(obj) : obj[i][1] = key
memberOf(obj, key) == obj[CHOOSE i \in 1..Len(obj) : obj[i][1] = key][2]

\* JSON.parse of one object of the document: the keys the text holds
parseEntry(obj) ==
    [id |-> memberOf(obj, "id"), score |-> memberOf(obj, "score"),
     violationsCount |-> memberOf(obj, "violationsCount"),
     status |-> memberOf(obj, "status"),
     error |-> IF hasMember(obj, "error") THEN memberOf(obj, "error") ELSE NoKey]

\* JSON.parse(fs.readFileSync(argv.batch, 'utf8')) of the notifier
JSONparse(text) == [i \in 1..Len(text) |-> parseEntry(text[i])]

\* main's catch block: console.error('Error:', ...); process.exit(1);
\* err is what standard error holds so far
mainCatch(err, message) ==
    /\ errlog' = Append(err, message)
    /\ exitCode' = 1
    /\ pc' = "done"

\* if (failing.length > 0) process.exit(1); else main returns
mainEnd ==
    /\ exitCode' = IF failing(report, argv.threshold) THEN 1 ELSE 0
    /\ pc' = "done"

\* the scripts that ship a generateDashboard: src/unnamed/part_001 ("file"),
\* src/unnamed/part_002 ("id"), scripts/ups_postman_governance.js
\* ("legacy-id") and src/unnamed/part_003 ("legacy-file")
Variants == {"file", "id", "legacy-id", "legacy-file"}

NaN == -1                 \* the number NaN (an average is never negative)

\* report.reduce((sum, api) => sum + api.score, 0)
RECURSIVE sumScores(_)
sumScores(rep) == IF rep = <<>> THEN 0 ELSE Head(rep).score + sumScores(Tail(rep))

\* a / b as avgScore.toFixed(1) shows it, in tenths; 0 / 0 is NaN
divide(a, b) == IF b = 0 THEN NaN ELSE (20 * a + b) \div (2 * b)

\* const avgScore = ... of generateDashboard
avgScore(variant, rep) ==
    IF variant \in {"file", "id"}
    THEN IF Len(rep) > 0 THEN divide(sumScores(rep), Len(rep)) ELSE 0
    ELSE divide(sumScores(rep), Len(rep))

\* what the dashboard shows of the report
generateDashboard(variant, rep) ==
    [report |-> rep,
     passCount |-> Cardinality({i \in 1..Len(rep) : rep[i].status = "PASS"}),
     failCount |-> Cardinality({i \in 1..Len(rep) : rep[i].status = "FAIL"}),
     avgScore |-> avgScore(variant, rep)]

\* the dashboard of rep goes to the --output file or to standard output;
\* writeFileSync may throw. out and err are what standard output and
\* standard error hold so far
emitDashboard(rep, out, err) ==
    IF argv.output
    THEN \/ /\ written' = Append(written, generateDashboard(argv.script, rep))
            /\ printed' = Append(out, line("saved", <<>>))
            /\ errlog' = err
            /\ mainEnd
         \/ /\ mainCatch(err, "write failed")
            /\ printed' = out
            /\ UNCHANGED written
    ELSE /\ printed' = Append(out, line("dashboard", generateDashboard(argv.script, rep)))
         /\ errlog' = err
         /\ mainEnd
         /\ UNCHANGED written

\* main up to its first await
MainStart ==
    /\ pc = "start"
    /\ IF ~argv.apiKey
       THEN /\ errlog' = Append(errlog, "POSTMAN_API_KEY environment variable not set")
            /\ exitCode' = 1
            /\ pc' = "done"
            /\ UNCHANGED retryVars
       ELSE /\ UNCHANGED <<errlog, exitCode>>
            /\ IF argv.mode = "workspace"
               THEN /\ pc' = "listing"
                    /\ retryEnter(DefaultMaxRetries, DefaultBaseDelay)
                    /\ UNCHANGED printed
               ELSE /\ pc' = IF argv.mode = "dir" THEN "readdir" ELSE "single"
                    /\ UNCHANGED retryVars
    /\ UNCHANGED <<argv, inflight, phase, todo, lints, report, dashReport, written,
                   scoreVars, lintVars, upVars>>

\* the lint of the one spec of --spec / --api returns
ScoreSingle ==
    /\ pc = "single"
    /\ \E l \in CliLints(argv.script) :
        /\ lints' = <<l>>
        /\ report' = <<singleEntry(1, scoreBy(argv.script, l), argv.threshold)>>
    /\ pc' = "output"
    /\ UNCHANGED <<argv, inflight, phase, todo, dashReport, errlog, written, exitCode,
                   retryVars, scoreVars, lintVars, upVars>>

\* getDirectoryGovernanceReport up to its loop: the directory may be
\* missing or hold no spec file
ListDirectory ==
    /\ pc = "readdir"
    /\ \/ /\ \E n \in 1..MaxSpecs : todo' = n
          /\ pc' = "scoring"
          /\ UNCHANGED <<errlog, exitCode>>
       \/ /\ \E m \in {"Directory not found", "No spec files found"} :
                mainCatch(errlog, m)
          /\ UNCHANGED todo
    /\ UNCHANGED <<argv, inflight, phase, lints, report, dashReport, written,
                   retryVars, scoreVars, lintVars, upVars>>

\* a listing that failed taken as a workspace without specs
ListingDone_emptyOnFailure ==
    /\ pc = "listing"
    /\ rstate \in {"returned", "thrown"}
    /\ todo' = IF rstate = "returned" THEN retValue ELSE 0
    /\ pc' = IF todo' > 0 THEN "scoring" ELSE IF phase = 1 THEN "output" ELSE "render"
    /\ retryLeave
    /\ UNCHANGED <<argv, inflight, phase, lints, report, dashReport, written, printed,
                   errlog, exitCode, scoreVars, lintVars, upVars>>

\* getWorkspaceGovernanceReport after the wrapper: the loop starts over the
\* specs listed, or the wrapper's error is rethrown to main's catch block
ListingDone ==
    /\ pc = "listing"
    /\ rstate \in {"returned", "thrown"}
    /\ IF rstate = "returned"
       THEN /\ todo' = retValue
            /\ pc' = IF retValue > 0 THEN "scoring"
                     ELSE IF phase = 1 THEN "output" ELSE "render"
            /\ UNCHANGED <<errlog, exitCode>>
       ELSE /\ mainCatch(errlog, "Failed to get workspace governance report")
            /\ UNCHANGED todo
    /\ retryLeave
    /\ UNCHANGED <<argv, inflight, phase, lints, report, dashReport, written, printed,
                   scoreVars, lintVars, upVars>>

\* the loop goes on without awaiting the lint it started
awaitSettled_noAwait(fl) == TRUE
\* const result = await this.scoreSpec...(...): the loop goes on only when
\* the lint it started has returned
awaitSettled(fl) == fl = <<>>

\* one iteration of the loop of either aggregator starts: the lint
\* subprocess of the next spec is spawned
LintStart ==
    /\ pc = "scoring"
    /\ awaitSettled(inflight)
    /\ Len(IF phase = 1 THEN report ELSE dashReport) + Len(inflight) < todo
    /\ inflight' = Append(inflight, "lint")
    /\ UNCHANGED <<argv, pc, phase, todo, lints, report, dashReport, errlog, written,
                   exitCode, retryVars, scoreVars, lintVars, upVars>>

\* the iteration ends: the lint returns and the entry of the spec is pushed
\* (the scorers catch every error themselves, so the catch block of the
\* loop never runs)
ScoreNext ==
    /\ pc = "scoring"
    /\ inflight # <<>>
    /\ inflight' = Tail(inflight)
    /\ \E l \in CliLints(argv.script) :
        LET cur == IF phase = 1 THEN report ELSE dashReport
            e == batchEntry(argv.script, Len(cur) + 1, scoreBy(argv.script, l),
                            argv.threshold)
        IN  /\ IF phase = 1
               THEN /\ report' = Append(report, e)
                    /\ lints' = Append(lints, l)
                    /\ UNCHANGED dashReport
               ELSE /\ dashReport' = Append(dashReport, e)
                    /\ UNCHANGED <<report, lints>>
            /\ pc' = IF Len(cur) + 1 < todo THEN "scoring"
                     ELSE IF phase = 1 THEN "output" ELSE "render"
    /\ UNCHANGED <<argv, phase, todo, errlog, written, exitCode,
                   retryVars, scoreVars, lintVars, upVars>>

\* main once it holds its report: the threshold check and the output
Output ==
    /\ pc = "output"
    /\ LET below == failing(report, argv.threshold)
           err == IF below THEN Append(errlog, "below threshold") ELSE errlog
       IN  IF argv.json
           THEN /\ printed' = Append(printed, line("json", JSONstringify(report)))
                /\ errlog' = err
                /\ mainEnd
                /\ UNCHANGED <<written, phase, maxRetries, baseDelay, attempt,
                               lastError, rstate, retValue, opLog, delays>>
           ELSE IF argv.mode = "workspace"
           THEN /\ printed' = Append(printed, line("fetching", <<>>))
                /\ errlog' = err
                /\ phase' = 2
                /\ pc' = "listing"
                /\ retryEnter(DefaultMaxRetries, DefaultBaseDelay)
                /\ UNCHANGED <<written, exitCode>>
           ELSE /\ emitDashboard(report, printed, err)
                /\ UNCHANGED <<phase, maxRetries, baseDelay, attempt,
                               lastError, rstate, retValue, opLog, delays>>
    /\ UNCHANGED <<argv, inflight, todo, lints, report, dashReport, scoreVars, lintVars, upVars>>

\* main after generateDashboardFromAPI: the dashboard of the second report
Render ==
    /\ pc = "render"
    /\ emitDashboard(dashReport, printed, errlog)
    /\ UNCHANGED <<argv, inflight, phase, todo, lints, report, dashReport, maxRetries,
                   baseDelay, attempt, lastError, rstate, retValue, opLog,
                   delays, scoreVars, lintVars, upVars>>

\* one run of a governance CLI, for every command line
Init ==
    /\ argv \in Argvs
    /\ pc = "start" /\ phase = 1 /\ todo = 0 /\ lints = <<>> /\ report = <<>>
    /\ dashReport = <<>> /\ errlog = <<>> /\ written = <<>> /\ exitCode = Running
    /\ scoreIdle /\ lintIdle /\ retryIdle /\ upIdle
    /\ inflight = <<>>

-----------------------------------------------------------------------------

vars == <<scoreVars, lintVars, retryVars, cliVars, upVars>>

NextScore == ScoreViolations
SpecScore == InitScore /\ [][NextScore]_vars

NextLint == LintFile \/ LintSpec
SpecLint == InitLint /\ [][NextLint]_vars

\* the wrapper alone, entered with any arguments
InitRetry ==
    /\ maxRetries \in 1..MaxRetriesArg
    /\ baseDelay \in {1, 250, DefaultBaseDelay}
    /\ attempt = 1 /\ lastError = NoError /\ rstate = "calling"
    /\ retValue = NoValue /\ opLog = <<>> /\ delays = <<>> /\ printed = <<>>
    /\ scoreIdle /\ lintIdle /\ cliIdle /\ upIdle

NextRetry == RetryCall \/ RetryWake
SpecRetry == InitRetry /\ [][NextRetry]_vars

Next ==
    \/ MainStart \/ ScoreSingle \/ ListDirectory \/ RetryCall \/ RetryWake
    \/ ListingDone \/ LintStart \/ ScoreNext \/ Output \/ Render
Spec == Init /\ [][Next]_vars

-----------------------------------------------------------------------------
(* SpecDash: generateDashboard of each variant applied to a report          *)

DashResults ==
    {scored(<<>>), scored(<<"error", "error", "warning">>),
     scored(Repeat("error", 4)), errorResult(CommandFailed)}

DashReports ==
    {[i \in 1..Len(rs) |-> workspaceEntry(i, rs[i])] : rs \in SeqsUpTo(DashResults, MaxSpecs)}

InitDash ==
    /\ argv \in [script : Variants]
    /\ report \in DashReports
    /\ pc = "dashboard"
    /\ phase = 1 /\ todo = 0 /\ lints = <<>> /\ dashReport = <<>> /\ errlog = <<>>
    /\ written = <<>> /\ exitCode = Running /\ inflight = <<>>
    /\ scoreIdle /\ lintIdle /\ retryIdle /\ upIdle

RenderDashboard ==
    /\ pc = "dashboard"
    /\ printed' = Append(printed, line("dashboard", generateDashboard(argv.script, report)))
    /\ pc' = "done"
    /\ UNCHANGED <<argv, phase, todo, lints, report, dashReport, errlog, written,
                   exitCode, inflight, maxRetries, baseDelay, attempt, lastError,
                   rstate, retValue, opLog, delays, scoreVars, lintVars, upVars>>

NextDash == RenderDashboard
SpecDash == InitDash /\ [][NextDash]_vars

-----------------------------------------------------------------------------
(* The uploader CLI: src/scripts/upload_specs_to_postman.js, the copy with   *)
(* collection generation (lines 290-733)                                     *)

DefaultMaxAttempts == 30     \* pollTaskStatus(specId, taskId, maxAttempts = 30)
Null == 0                    \* null, what a method returns after catching an error
TaskResult == 1              \* the task object pollTaskStatus returns
OkStatus == 200
NotFound == 404
ServerError == 500

\* replies that are not ok, and the rejected fetch
Faults == {ServerError, NetworkError}

\* the listings of api-specs upload-all meets, as readdirSync returns them
DirListings ==
    {<<>>, <<"rating.yaml">>, <<"rating-bad.yaml", "tracking_api.yml">>,
     <<"rating-bad.yaml", "rating.yaml", "tracking-api.yaml">>}

\* path.basename(file, path.extname(file)).replace(/[-_]/g, ' ')
\*     .replace(/\b\w/g, l => l.toUpperCase())
deriveName(file) ==
    CASE file = "rating.yaml" -> "Rating"
      [] file = "rating-bad.yaml" -> "Rating Bad"
      [] file \in {"tracking-api.yaml", "tracking_api.yml"} -> "Tracking Api"
      [] OTHER -> file

\* .filter(yaml or yml).filter(file => !file.includes('bad') && !file.includes('improved'))
RECURSIVE specFiles(_)
specFiles(files) ==
    IF files = <<>> THEN <<>>
    ELSE IF Head(files) = "rating-bad.yaml" THEN specFiles(Tail(files))
    ELSE <<Head(files)>> \o specFiles(Tail(files))

Commands ==
    {"upload", "upload-all", "list", "delete", "reupload", "generate-collection",
     "generate-all-collections", "bogus"}

\* the command line and environment of one run: file is args[1] of upload and
\* reupload ("" when missing), id is args[1] of delete and generate-collection
\* (0 when missing), dir is the api-specs directory met by upload-all, env is
\* POSTMAN_API_KEY and UPS_WORKSPACE_ID both being set
UploadArgvs ==
    {a \in [script : {"upload"}, command : Commands,
            file : {"", "tracking-api.yaml"}, id : 0..MaxSpecs,
            dir : [exists : BOOLEAN, files : DirListings],
            withCollections : BOOLEAN, env : BOOLEAN] :
        /\ a.command \notin {"upload", "reupload"} => a.file = ""
        /\ a.command \notin {"delete", "generate-collection"} => a.id = 0
        /\ a.command # "upload-all" => a.dir = [exists |-> FALSE, files |-> <<>>]
        /\ ~a.dir.exists => a.dir.files = <<>>
        /\ a.command \notin {"upload", "upload-all", "reupload"} => ~a.withCollections}

SpecNames == {"Rating", "Tracking Api"}

\* the workspaces a first run meets: specs of different names, ids from 1
InitialRegistries ==
    {[i \in 1..Len(ns) |-> [id |-> i, name |-> ns[i]]] :
        ns \in {s \in SeqsUpTo(SpecNames, MaxSpecs) :
                    \A i, j \in 1..Len(s) : i # j => s[i] # s[j]}}

\* what no uploader action touches
notUploader ==
    <<scoreVars, lintVars, maxRetries, baseDelay, attempt, lastError, rstate,
      retValue, opLog, delays, phase, todo, lints, report, dashReport, written>>

\* specs.find(s => s.name === name): the index of the first match, 0 if none
RECURSIVE findByName(_, _, _)
findByName(specs, name, i) ==
    IF i > Len(specs) THEN 0
    ELSE IF specs[i].name = name THEN i ELSE findByName(specs, name, i + 1)

\* specs.find(s => s.id === id)
RECURSIVE findById(_, _, _)
findById(specs, id, i) ==
    IF i > Len(specs) THEN 0
    ELSE IF specs[i].id = id THEN i ELSE findById(specs, id, i + 1)

\* the registry without the spec at index i
removeAt(specs, i) == SubSeq(specs, 1, i - 1) \o SubSeq(specs, i + 1, Len(specs))

\* the lines a method prints before its fetch
callLines(fn, arg) ==
    CASE fn = "createSpec" -> <<line("uploading as", <<arg>>)>>
      [] fn = "generateCollection" -> <<line("generating collection", <<arg>>)>>
      [] OTHER -> <<>>

\* a method is called: it sends its request and main awaits it
startCall(fn, arg) ==
    /\ call' = [fn |-> fn, arg |-> arg, step |-> "request", i |-> 0, value |-> Null]
    /\ inflight' = Append(inflight, fn)
    /\ pc' = "call"

\* the method returns v after a reply of status st; task is how the
\* generation task ended, for generateCollection
returnCall(v, st, task) ==
    /\ call' = [call EXCEPT !.step = "returned", !.i = 0, !.value = v]
    /\ returns' = Append(returns, [fn |-> call.fn, arg |-> call.arg, status |-> st,
                                   task |-> task, value |-> v])
    /\ inflight' = <<>>
    /\ pc' = "resume"

\* createSpec after its POST: a reply that is not ok or a rejected fetch is
\* caught and null returned; else the registry holds the new spec
CreateReply ==
    /\ pc = "call" /\ call.fn = "createSpec" /\ call.step = "request"
    /\ \/ \E st \in Faults :
            /\ errlog' = Append(errlog, "Error creating spec")
            /\ returnCall(Null, st, "none")
            /\ UNCHANGED <<registry, nextId, printed>>
       \/ /\ registry' = Append(registry, [id |-> nextId, name |-> deriveName(call.arg)])
          /\ nextId' = nextId + 1
          /\ printed' = Append(printed, line("created", <<nextId>>))
          /\ returnCall(nextId, OkStatus, "none")
          /\ UNCHANGED errlog
    /\ UNCHANGED <<argv, exitCode, queue, runs, history, notUploader>>

\* listSpecs after its GET: result.specs || [], or [] after an error
ListReply ==
    /\ pc = "call" /\ call.fn = "listSpecs" /\ call.step = "request"
    /\ \/ \E st \in Faults :
            /\ errlog' = Append(errlog, "Error listing specs")
            /\ returnCall(<<>>, st, "none")
       \/ /\ returnCall(registry, OkStatus, "none")
          /\ UNCHANGED errlog
    /\ UNCHANGED <<argv, exitCode, queue, runs, history, registry, nextId,
                   printed, notUploader>>

\* response.ok
responseOk(st) == st \in 200..299

\* deleteSpec counting only an ok reply as success
deleteSucceeded_strict(st) == responseOk(st)
\* deleteSpec does not throw: !(!response.ok && response.status !== 404)
deleteSucceeded(st) == responseOk(st) \/ st = NotFound

\* deleteSpec after its DELETE: the registry removes the spec, or answers
\* 404 when it holds no such spec; true unless the method threw
DeleteReply ==
    /\ pc = "call" /\ call.fn = "deleteSpec" /\ call.step = "request"
    /\ LET i == findById(registry, call.arg, 1)
       IN  \E st \in Faults \cup {IF i = 0 THEN NotFound ELSE OkStatus} :
            /\ registry' = IF st = OkStatus THEN removeAt(registry, i) ELSE registry
            /\ IF st # NetworkError /\ deleteSucceeded(st)
               THEN /\ printed' = Append(printed, line("deleted", <<call.arg>>))
                    /\ returnCall(TRUE, st, "none")
                    /\ UNCHANGED errlog
               ELSE /\ errlog' = Append(errlog, "Error deleting spec")
                    /\ returnCall(FALSE, st, "none")
                    /\ UNCHANGED printed
    /\ UNCHANGED <<argv, exitCode, queue, runs, history, nextId, notUploader>>

\* generateCollection after its POST: null after an error (the registry
\* answers 404 for a spec it does not hold), else the first poll is sent
GenerateReply ==
    /\ pc = "call" /\ call.fn = "generateCollection" /\ call.step = "request"
    /\ \/ \E st \in Faults \cup {NotFound} :
            /\ st = NotFound => findById(registry, call.arg, 1) = 0
            /\ errlog' = Append(errlog, "Error generating collection")
            /\ returnCall(Null, st, "none")
            /\ UNCHANGED printed
       \/ /\ findById(registry, call.arg, 1) # 0
          /\ printed' = Append(printed, line("generation started", <<call.arg>>))
          /\ call' = [call EXCEPT !.step = "poll"]
          /\ inflight' = <<"pollTaskStatus">>
          /\ UNCHANGED <<errlog, returns, pc>>
    /\ UNCHANGED <<argv, exitCode, queue, runs, history, registry, nextId,
                   notUploader>>

\* one iteration of pollTaskStatus after its GET; a null from pollTaskStatus
\* makes generateCollection return null without the success line
PollReply ==
    /\ pc = "call" /\ call.fn = "generateCollection" /\ call.step = "poll"
    /\ \/ \E st \in Faults :
            /\ errlog' = Append(errlog, "Error polling task: Failed to check task status")
            /\ returnCall(Null, st, "none")
            /\ UNCHANGED printed
       \/ /\ printed' = Append(printed, line("generated successfully", <<call.arg>>))
          /\ returnCall(TaskResult, OkStatus, "completed")
          /\ UNCHANGED errlog
       \/ /\ errlog' = Append(errlog, "Error polling task: Task failed")
          /\ returnCall(Null, OkStatus, "failed")
          /\ UNCHANGED printed
       \/ /\ call' = [call EXCEPT !.step = "wait"]      \* any other status
          /\ inflight' = <<>>
          /\ UNCHANGED <<errlog, printed, returns, pc>>
    /\ UNCHANGED <<argv, exitCode, queue, runs, history, registry, nextId,
                   notUploader>>

\* the loop condition letting one more iteration run
pollAgain_inclusive(i) == i <= DefaultMaxAttempts
\* i < maxAttempts, the condition of the loop of pollTaskStatus
pollAgain(i) == i < DefaultMaxAttempts

\* the 2 s timer of pollTaskStatus fires: i++, the next poll or the timeout
PollWake ==
    /\ pc = "call" /\ call.fn = "generateCollection" /\ call.step = "wait"
    /\ IF pollAgain(call.i + 1)
       THEN /\ call' = [call EXCEPT !.step = "poll", !.i = call.i + 1]
            /\ inflight' = <<"pollTaskStatus">>
            /\ UNCHANGED <<errlog, returns, pc>>
       ELSE /\ errlog' = Append(errlog, "Error polling task: Task timeout")
            /\ returnCall(Null, OkStatus, "timeout")
    /\ UNCHANGED <<argv, exitCode, queue, runs, history, registry, nextId, printed,
                   notUploader>>

\* main calls a method: q is the batch queue, out standard output so far
mainCall(fn, arg, q, out) ==
    /\ startCall(fn, arg)
    /\ queue' = q
    /\ printed' = out \o callLines(fn, arg)
    /\ UNCHANGED <<exitCode, errlog>>

\* process.exit(code), or main returns (code 0)
mainExit(code, out, err) ==
    /\ pc' = "done"
    /\ exitCode' = code
    /\ call' = NoCall
    /\ printed' = out
    /\ errlog' = err
    /\ UNCHANGED <<inflight, queue>>

\* await new Promise(resolve => setTimeout(resolve, ...)) of a batch loop
mainPause ==
    /\ pc' = "pause"
    /\ call' = NoCall
    /\ UNCHANGED <<exitCode, inflight, queue, printed, errlog>>

\* the iteration of a batch loop over the head of q; past the last entry
\* generate-all-collections prints its closing line and main returns
loopOver(q, out) ==
    IF q = <<>>
    THEN mainExit(0, IF argv.command = "generate-all-collections"
                     THEN Append(out, line("All collections generated successfully!", <<>>))
                     ELSE out,
                  errlog)
    ELSE IF argv.command = "upload-all"
    THEN mainCall("createSpec", Head(q), q, Append(out, line("uploading", <<Head(q)>>)))
    ELSE mainCall("generateCollection", Head(q).id, q,
                  Append(out, line("generating collection for", <<Head(q).name>>)))

\* main up to its first await
UploadStart ==
    /\ pc = "ustart"
    /\ IF ~argv.env
       THEN mainExit(1, printed, Append(errlog, "environment variables required"))
       ELSE CASE argv.command \in {"upload", "reupload"} /\ argv.file = "" ->
                    mainExit(1, printed, Append(errlog, "Please provide file path"))
              [] argv.command \in {"delete", "generate-collection"} /\ argv.id = 0 ->
                    mainExit(1, printed, Append(errlog, "Please provide spec ID"))
              [] argv.command = "upload" ->
                    mainCall("createSpec", argv.file, queue, printed)
              [] argv.command = "upload-all" /\ ~argv.dir.exists ->
                    mainExit(1, printed, Append(errlog, "api-specs directory not found"))
              [] argv.command = "upload-all" /\ argv.dir.exists ->
                    loopOver(specFiles(argv.dir.files),
                             Append(printed, line("found", specFiles(argv.dir.files))))
              [] argv.command = "delete" ->
                    mainCall("deleteSpec", argv.id, queue, printed)
              [] argv.command \in {"list", "reupload", "generate-collection",
                                   "generate-all-collections"} ->
                    mainCall("listSpecs", 0, queue, printed)
              [] OTHER ->
                    mainExit(1, printed, Append(errlog, "Unknown command"))
    /\ UNCHANGED <<argv, registry, nextId, returns, runs, history, notUploader>>

\* main after createSpec returned: the collection, if asked for and the
\* spec was created; then the rest of the command
afterCreate ==
    IF call.value # Null /\ argv.withCollections
    THEN mainCall("generateCollection", call.value, queue,
                  Append(printed, line("generating collection from spec", <<>>)))
    ELSE IF argv.command = "upload-all" THEN mainPause
    ELSE mainExit(0, printed, errlog)

\* main after listSpecs returned
afterList ==
    LET specs == call.value
    IN  CASE argv.command = "list" ->
                mainExit(0, Append(printed, line("found", specs)), errlog)
          [] argv.command = "reupload" ->
                LET i == findByName(specs, deriveName(argv.file), 1)
                IN  IF i # 0
                    THEN mainCall("deleteSpec", specs[i].id, queue,
                                  Append(printed, line("found existing spec", <<specs[i].id>>)))
                    ELSE mainCall("createSpec", argv.file, queue,
                                  Append(printed, line("re-uploading", <<argv.file>>)))
          [] argv.command = "generate-collection" ->
                IF findById(specs, argv.id, 1) = 0
                THEN mainExit(1, printed, Append(errlog, "Spec not found"))
                ELSE mainCall("generateCollection", argv.id, queue,
                              Append(printed, line("generating collection for", <<argv.id>>)))
          [] OTHER ->     \* generate-all-collections
                loopOver(specs, Append(printed, line("found", specs)))

\* main resumes after the method it awaited
UploadResume ==
    /\ pc = "resume" /\ argv.script = "upload"
    /\ CASE call.fn = "createSpec" -> afterCreate
         [] call.fn = "listSpecs" -> afterList
         [] call.fn = "deleteSpec" ->
                IF argv.command = "reupload"
                THEN mainCall("createSpec", argv.file, queue,
                              Append(printed, line("re-uploading", <<argv.file>>)))
                ELSE mainExit(0, printed, errlog)
         [] OTHER ->     \* generateCollection
                IF argv.command \in {"upload-all", "generate-all-collections"}
                THEN mainPause
                ELSE mainExit(0, printed, errlog)
    /\ UNCHANGED <<argv, registry, nextId, returns, runs, history, notUploader>>

\* the rate-limit timer of a batch loop fires: the next iteration
BatchWake ==
    /\ pc = "pause"
    /\ loopOver(Tail(queue), printed)
    /\ UNCHANGED <<argv, registry, nextId, returns, runs, history, notUploader>>

NoReturn == [fn |-> "none", arg |-> 0, status |-> 0, task |-> "none", value |-> Null]

\* the command is run again, in a new process, on the workspace as it is
\* (as long as the workspace is small)
Rerun ==
    /\ pc = "done"
    /\ argv.script = "upload"
    /\ runs < MaxRuns
    /\ Len(registry) <= MaxSpecs
    /\ runs' = runs + 1
    /\ history' = Append(history, [exit |-> exitCode,
                                   last |-> IF returns = <<>> THEN NoReturn
                                            ELSE returns[Len(returns)]])
    /\ pc' = "ustart"
    /\ exitCode' = Running
    /\ printed' = <<>> /\ errlog' = <<>> /\ returns' = <<>> /\ queue' = <<>>
    /\ UNCHANGED <<argv, call, inflight, registry, nextId, notUploader>>

InitUpload ==
    /\ argv \in UploadArgvs
    /\ registry \in InitialRegistries
    /\ nextId = Len(registry) + 1
    /\ pc = "ustart" /\ runs = 1 /\ history = <<>>
    /\ queue = <<>> /\ call = NoCall /\ returns = <<>>
    /\ inflight = <<>> /\ errlog = <<>> /\ exitCode = Running
    /\ phase = 1 /\ todo = 0 /\ lints = <<>> /\ report = <<>> /\ dashReport = <<>>
    /\ written = <<>>
    /\ scoreIdle /\ lintIdle /\ retryIdle

NextUpload ==
    \/ UploadStart \/ UploadResume \/ BatchWake \/ Rerun
    \/ CreateReply \/ ListReply \/ DeleteReply \/ GenerateReply \/ PollReply \/ PollWake
SpecUpload == InitUpload /\ [][NextUpload]_vars

\* one run of generate-collection; every request sent is answered or fails,
\* and every timer set fires
InitPoll == InitUpload /\ argv.command = "generate-collection"
NextPoll ==
    \/ UploadStart \/ UploadResume \/ ListReply \/ GenerateReply \/ PollReply
    \/ PollWake
SpecPoll ==
    InitPoll /\ [][NextPoll]_vars /\ WF_vars(PollReply) /\ WF_vars(PollWake)

-----------------------------------------------------------------------------
(* The notifier: src/scripts/teams_notifier.js                               *)

NotifierPassMark == 70       \* score >= 70 of the cards
DetailLimit == 5             \* results.slice(0, 5)

\* what the webhook answers; NetworkError is the rejected fetch
WebhookReplies == {200, 202, 400, 429, ServerError, NetworkError}

\* argv.score || 0, argv.violations || 0: an option not given counts as 0
orZero(n) == IF n = NotScored THEN 0 ELSE n

\* the command line of one run: webhook is --webhook or TEAMS_WEBHOOK_URL
\* being given, batch is --batch, readable and file are whether the batch
\* file can be read and parsed and the JSON document it holds
NotifyArgvs ==
    {a \in [script : {"notify"}, webhook : BOOLEAN, batch : BOOLEAN,
            readable : BOOLEAN, file : {JSONstringify(r) : r \in DashReports},
            score : {NotScored, 0, 69, NotifierPassMark, 85}, violations : {NotScored, 3}] :
        /\ a.batch => a.score = NotScored /\ a.violations = NotScored
        /\ ~a.batch => ~a.readable
        /\ ~a.readable => a.file = <<>>}

cardVerdict(score) == IF score >= NotifierPassMark THEN "[PASS]" ELSE "[FAIL]"

\* the card of sendGovernanceNotification
singlePayload(score, violationsCount) ==
    [card |-> "single", score |-> score, violations |-> violationsCount,
     status |-> IF score >= NotifierPassMark THEN "Ready for Review"
                ELSE "Rejected - Below Threshold",
     icon |-> cardVerdict(score)]

\* the card of sendBatchSummary: totals, average and the first detail lines
batchPayload(results) ==
    LET passed == Cardinality({i \in 1..Len(results) :
                                   results[i].score >= NotifierPassMark})
        shown == SubSeq(results, 1, IF Len(results) < DetailLimit THEN Len(results)
                                    ELSE DetailLimit)
    IN  [card |-> "batch", total |-> Len(results), passed |-> passed,
         failed |-> Len(results) - passed,
         avgScore |-> divide(sumScores(results), Len(results)),
         details |-> [i \in 1..Len(shown) |->
                        [id |-> shown[i].id, score |-> shown[i].score,
                         verdict |-> cardVerdict(shown[i].score)]]]

\* a reply counted as delivered whatever its status
webhookOk_anyReply(st) == TRUE
\* response.ok of the webhook's reply
webhookOk(st) == responseOk(st)

\* what no notifier action touches
notNotifier ==
    <<scoreVars, lintVars, maxRetries, baseDelay, attempt, lastError, rstate,
      retValue, opLog, delays, phase, todo, lints, dashReport, written,
      registry, nextId, queue, runs, history>>

\* main up to its await: the yargs check, the batch file, the card, the POST
NotifyStart ==
    /\ pc = "nstart"
    /\ IF ~argv.webhook
       THEN /\ mainExit(1, printed, Append(errlog, "Teams webhook URL required"))
            /\ UNCHANGED report
       ELSE IF argv.batch /\ ~argv.readable
       THEN /\ mainExit(1, printed, Append(errlog, "Error reading batch file"))
            /\ UNCHANGED report
       ELSE IF argv.batch
       THEN /\ report' = JSONparse(argv.file)
            /\ mainCall("sendBatchSummary", batchPayload(JSONparse(argv.file)), queue, printed)
       ELSE /\ mainCall("sendGovernanceNotification",
                        singlePayload(orZero(argv.score), orZero(argv.violations)),
                        queue, printed)
            /\ UNCHANGED report
    /\ UNCHANGED <<argv, returns, notNotifier>>

\* the POST to the webhook is answered or fails: sendGovernanceNotification
\* throws and catches on a reply that is not ok, sendBatchSummary returns
\* response.ok; both catch a rejected fetch
NotifyReply ==
    /\ pc = "call" /\ call.fn \in {"sendGovernanceNotification", "sendBatchSummary"}
    /\ \E st \in WebhookReplies :
        IF st # NetworkError /\ webhookOk(st)
        THEN /\ returnCall(TRUE, st, "none")
             /\ UNCHANGED errlog
        ELSE /\ returnCall(FALSE, st, "none")
             /\ errlog' = IF call.fn = "sendGovernanceNotification"
                          THEN Append(errlog, "Failed to send Teams notification:")
                          ELSE IF st = NetworkError
                          THEN Append(errlog, "Failed to send batch summary:")
                          ELSE errlog
    /\ UNCHANGED <<argv, report, exitCode, printed, notNotifier>>

\* main after the await: the success line, or the error and exit code 1
NotifyResume ==
    /\ pc = "resume" /\ call.fn \in {"sendGovernanceNotification", "sendBatchSummary"}
    /\ IF call.value
       THEN mainExit(0, Append(printed, line("sent", <<>>)), errlog)
       ELSE mainExit(1, printed, Append(errlog, "Failed to send"))
    /\ UNCHANGED <<argv, report, returns, notNotifier>>

InitNotify ==
    /\ argv \in NotifyArgvs
    /\ pc = "nstart" /\ report = <<>>
    /\ phase = 1 /\ todo = 0 /\ lints = <<>> /\ dashReport = <<>> /\ errlog = <<>>
    /\ written = <<>> /\ exitCode = Running /\ inflight = <<>>
    /\ scoreIdle /\ lintIdle /\ retryIdle /\ upIdle

NextNotify == NotifyStart \/ NotifyReply \/ NotifyResume
SpecNotify == InitNotify /\ [][NextNotify]_vars

-----------------------------------------------------------------------------
(* The hand-parsed governance CLI: src/scripts/ups_postman_governance.js     *)

\* what a command line is made of: the options, and one value for each
\* option that takes one
Tokens ==
    {"--workspace", "--spec", "--api", "--threshold", "--output", "--json", "--help",
     "ws-1", "80", "out.html"}

\* args.includes(x)
includes(args, x) == \E i \in 1..Len(args) : args[i] = x

\* args.indexOf(x): the first position, counted from 0, or -1
indexOf(args, x) ==
    IF includes(args, x)
    THEN (CHOOSE i \in 1..Len(args) :
            args[i] = x /\ \A j \in 1..(i - 1) : args[j] # x) - 1
    ELSE -1

\* args[args.indexOf(flag) + 1]: undefined past the end of the array
argAfter(args, flag) ==
    LET k == indexOf(args, flag) + 1
    IN  IF k < Len(args) THEN args[k + 1] ELSE Absent

\* parseInt of a token: NaN unless it starts with digits
parseInt(tok) == IF tok = "80" THEN 80 ELSE NaN

\* parseInt(args[args.indexOf('--threshold') + 1]) || 70
legacyThreshold(args) ==
    LET n == parseInt(argAfter(args, "--threshold"))
    IN  IF n = NaN \/ n = 0 THEN DefaultThreshold ELSE n

\* the branch main takes: specId && args.includes('--spec'), ...
legacyMode(args) ==
    IF argAfter(args, "--spec") # Absent /\ includes(args, "--spec") THEN "spec"
    ELSE IF argAfter(args, "--api") # Absent /\ includes(args, "--api") THEN "api"
    ELSE IF argAfter(args, "--workspace") # Absent /\ includes(args, "--workspace")
    THEN "workspace"
    ELSE "none"

\* the workspace reports a run meets: no spec, one failing spec, a clean
\* spec beside one whose lint failed
LegacyReports ==
    {[i \in 1..Len(rs) |-> workspaceEntry(i, rs[i])] :
        rs \in {<<>>, <<scored(Repeat("error", 4))>>,
                 <<scored(<<>>), errorResult(CommandFailed)>>}}

\* the reports main can hold after its await
legacyReports(args) ==
    IF legacyMode(args) = "workspace" THEN LegacyReports
    ELSE {<<singleEntry(1, r, legacyThreshold(args))>> : r \in DashResults}

\* what no action of this CLI touches
notLegacy ==
    <<scoreVars, lintVars, maxRetries, baseDelay, attempt, lastError, rstate,
      retValue, opLog, delays, phase, todo, lints, dashReport, inflight, upVars>>

\* main up to its await: --help, the API key, the options, the branch
LegacyStart ==
    /\ pc = "lstart"
    /\ IF includes(argv.args, "--help")
       THEN /\ printed' = Append(printed, line("help", <<>>))
            /\ exitCode' = 0 /\ pc' = "done"
            /\ UNCHANGED errlog
       ELSE IF ~argv.apiKey
       THEN /\ errlog' = Append(errlog, "POSTMAN_API_KEY environment variable not set")
            /\ exitCode' = 1 /\ pc' = "done"
            /\ UNCHANGED printed
       ELSE IF legacyMode(argv.args) = "none"
       THEN /\ errlog' = Append(errlog, "Please specify --workspace, --spec, or --api")
            /\ exitCode' = 1 /\ pc' = "done"
            /\ UNCHANGED printed
       ELSE /\ pc' = "lscore"
            /\ UNCHANGED <<printed, errlog, exitCode>>
    /\ UNCHANGED <<argv, report, written, notLegacy>>

\* main after its await: the report or the error of the workspace listing,
\* the threshold check, the output and the exit code
LegacyScored ==
    /\ pc = "lscore"
    /\ pc' = "done"
    /\ \/ /\ legacyMode(argv.args) = "workspace"
          /\ errlog' = Append(errlog, "Failed to get workspace governance report")
          /\ exitCode' = 1
          /\ UNCHANGED <<report, printed, written>>
       \/ \E rep \in legacyReports(argv.args) :
            LET threshold == legacyThreshold(argv.args)
                outputFile == argAfter(argv.args, "--output")
                below == failing(rep, threshold)
                err == IF below THEN Append(errlog, "below threshold") ELSE errlog
                dashboard == generateDashboard("legacy-id", rep)
            IN  /\ report' = rep
                /\ IF includes(argv.args, "--json")
                   THEN /\ printed' = Append(printed, line("json", JSONstringify(rep)))
                        /\ errlog' = err
                        /\ exitCode' = IF below THEN 1 ELSE 0
                        /\ UNCHANGED written
                   ELSE IF outputFile # Absent
                   THEN \/ /\ written' = Append(written, [path |-> outputFile,
                                                          dashboard |-> dashboard])
                           /\ printed' = Append(printed, line("saved", <<outputFile>>))
                           /\ errlog' = err
                           /\ exitCode' = IF below THEN 1 ELSE 0
                        \/ /\ errlog' = Append(err, "write failed")
                           /\ exitCode' = 1
                           /\ UNCHANGED <<printed, written>>
                   ELSE /\ printed' = Append(printed, line("dashboard", dashboard))
                        /\ errlog' = err
                        /\ exitCode' = IF below THEN 1 ELSE 0
                        /\ UNCHANGED written
    /\ UNCHANGED <<argv, notLegacy>>

\* one run, for every command line of at most MaxArgs arguments
InitLegacy ==
    /\ argv \in [script : {"legacy-id"}, args : SeqsUpTo(Tokens, MaxArgs),
                  apiKey : BOOLEAN]
    /\ pc = "lstart" /\ report = <<>>
    /\ phase = 1 /\ todo = 0 /\ lints = <<>> /\ dashReport = <<>> /\ errlog = <<>>
    /\ written = <<>> /\ exitCode = Running /\ inflight = <<>>
    /\ scoreIdle /\ lintIdle /\ retryIdle /\ upIdle

NextLegacy == LegacyStart \/ LegacyScored
SpecLegacy == InitLegacy /\ [][NextLegacy]_vars

\* the batch runs of the governance CLIs and of the uploader
InitBatch ==
    \/ Init /\ argv.mode \in {"dir", "workspace"}
    \/ InitUpload /\ argv.command \in {"upload-all", "generate-all-collections"}
NextBatch ==
    \/ MainStart \/ ListDirectory \/ RetryCall \/ RetryWake \/ ListingDone
    \/ LintStart \/ ScoreNext \/ Output \/ Render
    \/ UploadStart \/ UploadResume \/ BatchWake
    \/ CreateReply \/ ListReply \/ GenerateReply \/ PollReply \/ PollWake
SpecBatch == InitBatch /\ [][NextBatch]_vars

-----------------------------------------------------------------------------
(* Properties of the scorer and the parser *)

CountOf(vs, S) == Cardinality({i \in 1..Len(vs) : vs[i] \in S})

\* the score the specification states, from the counts per severity alone
\* ('warn' is the linter's other spelling of warning)
StatedScore(vs) ==
    Max(0, 100 - (10 * CountOf(vs, {"error"})
                  + 5 * CountOf(vs, {"warning", "warn"})
                  + 2 * CountOf(vs, {"info"})
                  + 1 * CountOf(vs, Severities \ {"error", "warning", "warn", "info"})))

\* C1: the score of a violation list is max(0, 100 - (10 per error + 5 per
\* warning + 2 per info + 1 per hint or other severity)); it lies in 0..100,
\* is 100 for the empty list and is the same for the list in another order.
C1_ScoreFormula ==
    scoreOut # NotScored =>
        /\ scoreOut = StatedScore(violations)
        /\ scoreOut \in 0..100
        /\ (violations = <<>> => scoreOut = 100)
        /\ calcScore(Reverse(violations)) = scoreOut

\* a list whose penalties exceed 100 was scored
C1_Witness ==
    /\ scoreOut = 0
    /\ CountOf(violations, {"error"}) = 11
    /\ CountOf(violations, {"hint"}) = 1

\* the linter's parse-failure message: 'Error: ... Couldn't parse ...'
hasMarker(out) == includesError(out) /\ includesCouldntParse(out)

hasSeverityCounts(vs, m) ==
    /\ CountOf(vs, {"error"}) = m[1]
    /\ CountOf(vs, {"warning"}) = m[2]
    /\ CountOf(vs, {"info"}) = m[3]
    /\ CountOf(vs, {"hint"}) = m[4]
    /\ Len(vs) = m[1] + m[2] + m[3] + m[4]

summaryScored(m) ==
    /\ result.error = Absent
    /\ hasSeverityCounts(result.violations, m)
    /\ result.violationCount = m[1] + m[2] + m[3] + m[4]
    /\ (m = <<2, 3, 4, 3>> => result.violationCount = 12 /\ result.score = 54)

\* C7 as stated: whenever the output scored by file path contains a summary
\* line 'N problems (E errors, W warnings, I infos, H hints)', the result
\* holds exactly E error, W warning, I info and H hint violations.
C7_SummaryAlways ==
    (entry = "file" /\ result # NoResult /\ lint.out.summary # NoSummary)
        => summaryScored(lint.out.summary)

\* C7 amended: the same, for an output that does not also carry the
\* parse-failure marker (which is answered with score 0 and an error).
C7_SummaryCounts ==
    (entry = "file" /\ result # NoResult /\ lint.out.summary # NoSummary
        /\ ~hasMarker(lint.out))
        => summaryScored(lint.out.summary)

\* the summary line of the specification's example, beside a table row
C7_Witness ==
    /\ entry = "file"
    /\ lint.out.summary = <<2, 3, 4, 3>>
    /\ lint.out.lines = <<"rowERROR">>
    /\ result.score = 54
    /\ result.violationCount = 12

\* C8: an output that contains the parse-failure marker is answered with
\* score 0 and a non-empty error and no violation is parsed from it,
\* whatever else the output contains, by either entry point.
C8_MarkerShortCircuit ==
    (result # NoResult /\ hasMarker(lint.out)) =>
        /\ result.score = 0
        /\ result.error \notin {Absent, ""}
        /\ result.violations = <<>>
        /\ result.violationCount = NoCount

\* the marker beside a summary line that alone would have scored 54
C8_Witness ==
    /\ entry = "file"
    /\ hasMarker(lint.out)
    /\ lint.out.summary = <<2, 3, 4, 3>>
    /\ result.score = 0
    /\ result.error = "Failed to parse API specification"

\* the text the entry point parsed
parsedOutput ==
    IF entry = "file" /\ ~lint.ok /\ lint.out = EmptyOutput
    THEN CommandFailedText ELSE lint.out

isResultArray(out) ==
    /\ out.kind = "json"
    /\ out.shape \in {"array", "results"}
    /\ \A i \in 1..Len(out.items) : out.items[i] # "<number>"

\* the violations of the first tier that matches, in the order summary
\* line, structured JSON, table rows
firstMatchingTier(out) ==
    IF out.summary # NoSummary THEN summaryViolations(out.summary)
    ELSE IF isResultArray(out) THEN jsonViolations(out)
    ELSE tableRowsFile(out.lines)

\* C9: each entry point takes the violations from the first tier that
\* matches, trying the summary line first, then structured JSON, then the
\* table rows.
C9_TierOrder ==
    (result # NoResult /\ result.error = Absent)
        => result.violations = firstMatchingTier(parsedOutput)

\* a severity field as the specification folds it: lower case
foldCase(raw) ==
    CASE raw = "ERROR" -> "error"
      [] raw = "Warning" -> "warning"
      [] raw = "HINT" -> "hint"
      [] OTHER -> raw

\* the output is a JSON document holding an array of result objects, at the
\* top level or under the key results
holdsResultArray(out) == out.kind = "json" /\ out.shape \in {"array", "results"}

\* C22: when the output of a lint that exited with status 0 is a JSON
\* document holding an array of result objects, scoring by spec id yields
\* exactly one violation per result object, its severity the object's
\* severity in lower case, or hint, with penalty 1, when the object has none.
C22_OnePerResultObject ==
    (entry = "id" /\ result # NoResult /\ lint.ok /\ holdsResultArray(lint.out)) =>
        /\ result.error = Absent
        /\ result.violationCount = Len(lint.out.items)
        /\ Len(result.violations) = Len(lint.out.items)
        /\ \A i \in 1..Len(lint.out.items) :
            /\ lint.out.items[i] = Absent =>
                    (result.violations[i] = "hint" /\ penalty(result.violations[i]) = 1)
            /\ lint.out.items[i] \notin {Absent, "<number>"} =>
                    result.violations[i] = foldCase(lint.out.items[i])

hasSeverityRow(out) ==
    \E i \in 1..Len(out.lines) :
        out.lines[i] \in {"rowERROR", "rowWARNING", "rowWARN", "rowINFO", "rowHINT"}

\* no parse tier matches the output: it has no summary line, holds no array
\* of results and no table row naming a severity
matchesNoTier(out) ==
    out.summary = NoSummary /\ ~holdsResultArray(out) /\ ~hasSeverityRow(out)

\* the output carries neither 'Error:' nor "Couldn't parse"
carriesNoErrorMarker(out) == ~includesError(out) /\ ~includesCouldntParse(out)

\* C24: a lint output that matches no parse tier and carries no error
\* marker is not scored as a clean spec: the result is not score 100
\* without an error, by either entry point.
C24_CleanOnlyWhenReported ==
    (result # NoResult /\ matchesNoTier(lint.out) /\ carriesNoErrorMarker(lint.out))
        => ~(result.score = 100 /\ result.error = Absent)

\* C11: a lint subprocess that exits with a non-zero status after writing
\* output is scored, by either entry point, exactly as the same output is
\* scored after a zero exit status.
C11_NonZeroExitParsed ==
    (result # NoResult /\ ~lint.ok /\ lint.out # EmptyOutput)
        => result = scoreBy(entry, [ok |-> TRUE, out |-> lint.out])


-----------------------------------------------------------------------------
(* Properties of retryWithBackoff *)

is4xx(e) == e \in 400..499
isRetryable(e) == e = NetworkError \/ e \in 500..599

failedRetryably(o) == ~o.ok /\ isRetryable(o.v)

\* the first k invocations failed with retryable errors, the next succeeded
failedThenSucceeded(k) ==
    /\ Len(opLog) >= k + 1
    /\ \A i \in 1..k : failedRetryably(opLog[i])
    /\ opLog[k + 1].ok

\* C4: after k < maxRetries retryable failures and then a success, the
\* wrapper has returned the value of the success, the operation was invoked
\* exactly k + 1 times and exactly k delays were slept.
C4_SuccessAfterRetries ==
    \A k \in 0..(maxRetries - 1) :
        failedThenSucceeded(k) =>
            /\ rstate = "returned"
            /\ retValue = opLog[k + 1].v
            /\ Len(opLog) = k + 1
            /\ Len(delays) = k

\* two failures, then the success on the third attempt: two delays
C4_Witness ==
    /\ maxRetries = DefaultMaxRetries
    /\ failedThenSucceeded(2)
    /\ rstate = "returned"
    /\ retValue = 2
    /\ Len(delays) = 2

allFailedRetryably == \A i \in 1..Len(opLog) : failedRetryably(opLog[i])

persistentNetworkFailure ==
    /\ opLog # <<>>
    /\ \A i \in 1..Len(opLog) : ~opLog[i].ok /\ opLog[i].v = NetworkError

\* C20: with the default arguments a persistent network failure is
\* surfaced after three delays: 1000 ms, 2000 ms and 4000 ms.
C20_ThreeDelays ==
    (/\ maxRetries = DefaultMaxRetries /\ baseDelay = DefaultBaseDelay
     /\ persistentNetworkFailure /\ rstate = "thrown")
        => delays = <<1000, 2000, 4000>>

-----------------------------------------------------------------------------
(* Properties of the batch loops *)

-----------------------------------------------------------------------------
(* Properties of the dashboard *)

\* C15: the dashboard of an empty report shows the average score 0, in
\* every variant of generateDashboard.
C15_EmptyAverage ==
    (pc = "done" /\ report = <<>>) =>
        \A j \in 1..Len(printed) :
            printed[j].what = "dashboard" => printed[j].data.avgScore = 0

-----------------------------------------------------------------------------
(* Properties of the uploader *)

timedOut(r) == r.fn = "generateCollection" /\ r.task = "timeout"

saysGenerated(id) ==
    \E j \in 1..Len(printed) :
        printed[j].what = "generated successfully" /\ printed[j].data = <<id>>

saysAllGenerated ==
    \E j \in 1..Len(printed) :
        printed[j].what = "All collections generated successfully!"

\* C12: a generation whose task is still not terminal after the maximum
\* number of polls ends in a timeout error: the method returns null, the
\* error is written, and no line of the run reports the generation, or all
\* generations, as successful.
C12_TimeoutNotSuccess ==
    \A k \in 1..Len(returns) :
        timedOut(returns[k]) =>
            /\ returns[k].value = Null
            /\ \E j \in 1..Len(errlog) : errlog[j] = "Error polling task: Task timeout"
            /\ ~saysGenerated(returns[k].arg)
            /\ ~saysAllGenerated

succeeded(st) == st \in 200..299 \/ st = 404

\* the registry answered the request (the reply is no server error and the
\* fetch was not rejected)
answered(r) == r.status \notin {ServerError, NetworkError}

\* C13: deleteSpec returns true exactly when the registry answers 2xx or
\* 404, and false for any other status or a network error; so, after a
\* delete that succeeded, deleting the same id again succeeds too whenever
\* the registry answers.
C13_DeleteIdempotent ==
    /\ \A k \in 1..Len(returns) :
        returns[k].fn = "deleteSpec" =>
            returns[k].value = succeeded(returns[k].status)
    /\ (argv.script = "upload" /\ argv.command = "delete" /\ runs >= 2
            /\ returns # <<>>
            /\ history[runs - 1].last.fn = "deleteSpec"
            /\ history[runs - 1].last.value = TRUE
            /\ answered(returns[1]))
        => (returns[1].status = 404 /\ returns[1].value = TRUE)

\* spec 1 deleted by the first run, deleted again by the second
C13_Witness ==
    /\ argv.script = "upload" /\ argv.command = "delete" /\ argv.id = 1
    /\ runs = 2
    /\ history[1].last.fn = "deleteSpec"
    /\ history[1].last.status = 200 /\ history[1].last.value = TRUE
    /\ Len(returns) = 1
    /\ returns[1].arg = 1 /\ returns[1].status = 404 /\ returns[1].value = TRUE
    /\ exitCode = 0

\* how many specs of the workspace carry the name
specsNamed(name) == Cardinality({i \in 1..Len(registry) : registry[i].name = name})

\* the run created a spec
createdSpec ==
    \E k \in 1..Len(returns) : returns[k].fn = "createSpec" /\ returns[k].value # Null

\* C14: after each of any number of successive reupload runs of a file (each
\* creating the spec), the workspace holds exactly one spec with the name
\* derived from the file.
C14_ReuploadNoDuplicates ==
    (argv.script = "upload" /\ argv.command = "reupload" /\ pc = "done"
        /\ createdSpec)
        => specsNamed(deriveName(argv.file)) = 1

\* a method of the run reported a failure to main: null, false, or the
\* empty list of a listing that failed
methodFailed(r) ==
    CASE r.fn \in {"createSpec", "generateCollection"} -> r.value = Null
      [] r.fn = "deleteSpec" -> r.value = FALSE
      [] r.fn = "listSpecs" -> r.status # OkStatus
      [] OTHER -> FALSE

operationFailed ==
    \/ \E k \in 1..Len(returns) : methodFailed(returns[k])
    \/ errlog # <<>>

\* C18: a run of the upload script ends with exit code 1 when the operation
\* it was asked for failed, and with exit code 0 only when it succeeded.
C18_UploadExitCode ==
    (argv.script = "upload" /\ pc = "done")
        => exitCode = (IF operationFailed THEN 1 ELSE 0)

polling == call.fn = "generateCollection" /\ call.step \in {"poll", "wait"}

\* the status requests pollTaskStatus has issued so far
requestsIssued == IF polling THEN call.i + 1 ELSE 0

\* a status request is sent in this step
sendsStatusRequest ==
    inflight' = <<"pollTaskStatus">> /\ inflight # <<"pollTaskStatus">>

\* pollTaskStatus returns in this step
pollReturns == polling /\ call'.step = "returned"

\* what the generation that just returned gave back
lastReturn == returns'[Len(returns')]

\* C21: pollTaskStatus issues at most maxAttempts status requests; it issues
\* one only at its start or after a reply that was 2xx and neither
\* 'completed' nor 'failed'; when it returns nothing is in flight, and it
\* returns the task exactly when the reply was 'completed', null after a
\* 'failed' reply, a reply that is not ok, or the timeout; and every poll
\* loop that started returns.
C21_PollStateMachine ==
    /\ [](requestsIssued <= DefaultMaxAttempts)
    /\ [][/\ sendsStatusRequest =>
                (call.step = "request" \/ (call.step = "wait" /\ call'.i = call.i + 1))
          /\ pollReturns =>
                /\ inflight' = <<>>
                /\ (lastReturn.value = TaskResult) = (lastReturn.task = "completed")
                /\ lastReturn.value \in {TaskResult, Null}
                /\ (lastReturn.task = "timeout") =>
                        (call.step = "wait" /\ call.i + 1 = DefaultMaxAttempts)]_vars
    /\ (polling ~> (call.step = "returned"))

\* the generation of spec 1 timed out: null after the last of the polls
C21_Witness ==
    /\ argv.command = "generate-collection" /\ argv.id = 1
    /\ Len(returns) = 2
    /\ returns[2].fn = "generateCollection"
    /\ returns[2].task = "timeout" /\ returns[2].value = Null
    /\ pc = "done"

\* the listing of the run showed a spec with the name derived from the file
foundExisting ==
    \E j \in 1..Len(printed) : printed[j].what = "found existing spec"

\* C26: when a reupload run that found a spec with the derived name in the
\* workspace has finished, the workspace holds a spec with that name,
\* whatever the delete and create requests were answered.
C26_ReuploadKeepsSpec ==
    (argv.script = "upload" /\ argv.command = "reupload" /\ pc = "done"
        /\ foundExisting)
        => specsNamed(deriveName(argv.file)) >= 1

-----------------------------------------------------------------------------
(* Properties of the notifier *)

isNotification(r) == r.fn \in {"sendGovernanceNotification", "sendBatchSummary"}

\* the card still shows the score and the verdict computed before the POST
cardIntact(r) ==
    IF r.fn = "sendGovernanceNotification"
    THEN /\ r.arg.score = (IF argv.score = NotScored THEN 0 ELSE argv.score)
         /\ r.arg.icon = (IF r.arg.score >= 70 THEN "[PASS]" ELSE "[FAIL]")
    ELSE /\ report = JSONparse(argv.file)
         /\ Len(r.arg.details) = Len(report)
         /\ \A i \in 1..Len(report) :
              /\ r.arg.details[i].score = report[i].score
              /\ r.arg.details[i].verdict
                     = (IF report[i].score >= 70 THEN "[PASS]" ELSE "[FAIL]")

\* C17: sendGovernanceNotification and sendBatchSummary always return to
\* their caller: true exactly when the webhook answers 2xx, false on any
\* other reply or a network error; whatever the delivery does, the scores
\* and verdicts computed before it stay as they were.
C17_NotifierNeverThrows ==
    /\ \A k \in 1..Len(returns) :
        isNotification(returns[k]) =>
            /\ returns[k].value = (returns[k].status \in 200..299)
            /\ cardIntact(returns[k])
    /\ (argv.script = "notify" /\ call.fn # "none" /\ inflight = <<>>)
            => (pc = "resume" /\ Len(returns) = 1 /\ call.value = returns[1].value)

\* a card of score 85 met by a 500: false returned, the verdict unchanged
C17_Witness ==
    /\ argv.script = "notify" /\ ~argv.batch /\ argv.score = 85
    /\ pc = "done" /\ exitCode = 1
    /\ Len(returns) = 1
    /\ returns[1].status = 500 /\ returns[1].value = FALSE
    /\ returns[1].arg.status = "Ready for Review"

-----------------------------------------------------------------------------
(* Properties of the reports and of the exit code *)

entriesOf(rep) == {rep[i] : i \in 1..Len(rep)}

\* C2: in every report entry of every mode, status is PASS exactly when
\* the score is at least the threshold of the invocation.
C2_StatusIffThreshold ==
    \A e \in entriesOf(report) \cup entriesOf(dashReport) :
        e.status = (IF e.score >= argv.threshold THEN "PASS" ELSE "FAIL")

\* the lint of a spec failed: the scorer answered with an error, or the
\* subprocess failed and wrote nothing
lintFailed(l) ==
    \/ scoreBy(argv.script, l).error # Absent
    \/ ~l.ok /\ l.out = EmptyOutput

\* C3: a finished batch report holds one entry per enumerated spec; the
\* entry of a spec whose lint failed has score 0, status FAIL and a
\* non-empty error; every entry is the one its own lint outcome gives,
\* whatever happened to the other specs.
C3_BatchIsolation ==
    (argv.mode \in {"dir", "workspace"} /\ pc = "output") =>
        /\ Len(report) = todo
        /\ Len(lints) = todo
        /\ \A i \in 1..Len(report) :
            /\ report[i] = batchEntry(argv.script, i, scoreBy(argv.script, lints[i]),
                                      argv.threshold)
            /\ lintFailed(lints[i]) =>
                /\ report[i].score = 0
                /\ report[i].status = "FAIL"
                /\ report[i].error \notin {Absent, NoKey, ""}

\* a step of the run failed with an error: one that reached main's catch
\* block or the missing API key, or the lint of a spec
stepFailed ==
    \/ \E i \in 1..Len(errlog) : errlog[i] # "below threshold"
    \/ \E i \in 1..Len(lints) : lintFailed(lints[i])

\* C10: the process ends with exit code 1 if an entry of the report is
\* below the threshold or a step failed with an error, and with 0 otherwise.
C10_ExitCode ==
    pc = "done" =>
        exitCode = (IF failing(report, argv.threshold) \/ stepFailed THEN 1 ELSE 0)

\* the value read from entry.error: undefined when the key is missing
readError(e) == IF e.error = NoKey THEN Absent ELSE e.error

sameFields(a, b) ==
    /\ a.id = b.id /\ a.score = b.score /\ a.violationsCount = b.violationsCount
    /\ a.status = b.status /\ readError(a) = readError(b)

jsonLines == {j \in 1..Len(printed) : printed[j].what = "json"}

listedReport == IF phase = 1 THEN report ELSE dashReport

\* a report or a dashboard has been emitted
emitted ==
    \/ written # <<>>
    \/ \E j \in 1..Len(printed) : printed[j].what \in {"json", "dashboard", "saved"}

\* the listing failed: the wrapper has thrown to getWorkspaceGovernanceReport
listingFailed == pc = "listing" /\ rstate = "thrown"

\* C23: in workspace mode a listing that is still in progress has no spec
\* linted for its report; the wrapper throws only with its retries exhausted
\* or on a 4xx reply; and when it has thrown, the next step of the run is its
\* end with exit code 1, no lint started, no entry pushed, and no report or
\* dashboard written.
C23_ListingFirst ==
    /\ [](pc = "listing" => (inflight = <<>> /\ listedReport = <<>>))
    /\ [](listingFailed =>
            (Len(opLog) = maxRetries \/ (lastError # NoError /\ isClientError(lastError))))
    /\ [][listingFailed =>
            /\ pc' = "done" /\ exitCode' = 1
            /\ ~emitted'
            /\ UNCHANGED <<inflight, lints, report, dashReport, written>>]_vars

\* the first listing of a workspace run failed: the run ended with exit
\* code 1 and an empty report
C23_Witness ==
    /\ argv.script = "id" /\ argv.mode = "workspace" /\ phase = 1
    /\ pc = "done" /\ exitCode = 1
    /\ errlog = <<"Failed to get workspace governance report">>
    /\ report = <<>> /\ lints = <<>> /\ ~emitted

\* the dashboards the run has emitted, printed or written to the file
dashboardsEmitted ==
    {written[k] : k \in 1..Len(written)}
        \cup {printed[j].data : j \in {i \in 1..Len(printed) : printed[i].what = "dashboard"}}

\* C25: the dashboard a workspace run emits shows the report of main, the
\* one the threshold verdict and the exit code were taken from; the
\* registry is listed and the specs are linted for that report only.
C25_DashboardOfVerdict ==
    (argv.script = "id" /\ argv.mode = "workspace") =>
        /\ phase = 1
        /\ \A d \in dashboardsEmitted : d.report = report

\* C27: when a run with --json has written its report, the standard output
\* of the process is the JSON document of the report and nothing else, also
\* when the workspace listing failed at first and was retried.
C27_JsonOutputOnly ==
    (argv.script \in {"file", "id"} /\ argv.json /\ pc = "done" /\ jsonLines # {})
        => printed = <<line("json", JSONstringify(report))>>

\* the argument that follows the first --output on the command line
pathGiven(args) ==
    LET i == CHOOSE k \in 1..Len(args) :
                args[k] = "--output" /\ \A j \in 1..(k - 1) : args[j] # "--output"
    IN  IF i < Len(args) THEN args[i + 1] ELSE Absent

\* the run got as far as its output and was not asked for JSON
rendersDashboard ==
    /\ pc = "done" /\ ~includes(argv.args, "--json")
    /\ \A j \in 1..Len(errlog) : errlog[j] = "below threshold"
    /\ ~includes(argv.args, "--help")

\* C28: the hand-parsed CLI writes a file only when --output is on the
\* command line, and then to the path that follows it; without --output the
\* dashboard goes to standard output and no file is written.
C28_OutputOnlyWhenGiven ==
    argv.script = "legacy-id" =>
        /\ \A k \in 1..Len(written) :
            /\ includes(argv.args, "--output")
            /\ written[k].path = pathGiven(argv.args)
        /\ (rendersDashboard /\ ~includes(argv.args, "--output")) =>
            /\ written = <<>>
            /\ \E j \in 1..Len(printed) : printed[j].what = "dashboard"

\* C29: in the single-spec modes the entry of a spec whose lint ended in an
\* error carries the message of that error, as the entries of the batch
\* modes do.
C29_SingleEntryError ==
    (argv.script \in {"file", "id"} /\ argv.mode \in {"spec", "api"} /\ Len(report) = 1
        /\ scoreBy(argv.script, lints[1]).error # Absent)
        => report[1].error = scoreBy(argv.script, lints[1]).error

\* the entry has an error field that holds a message
errorPopulated(e) == e.error \notin {Absent, NoKey, ""}

\* C30: in every entry of every report, an error that is populated comes
\* with score 0 and violationsCount 0, and a score above 0 comes without an
\* error.
C30_ErrorMeansZero ==
    \A e \in entriesOf(report) \cup entriesOf(dashReport) :
        /\ errorPopulated(e) => (e.score = 0 /\ e.violationsCount = 0)
        /\ e.score > 0 => ~errorPopulated(e)

\* a directory report: a file the linter could not parse beside a file
\* scored 75
C30_Witness ==
    /\ argv.script = "file" /\ argv.mode = "dir" /\ pc = "done"
    /\ Len(report) = 2
    /\ report[1].error = "Failed to parse API specification"
    /\ report[1].score = 0 /\ report[1].violationsCount = 0
    /\ report[2].score = 75 /\ report[2].error = Absent

====
